---- MODULE Spec2Model ----
(***************************************************************************)
(* Model of the GStreamer "exclusion" video filter (src/gstexclusion.c).   *)
(*                                                                         *)
(* A guint32 is represented by its four bytes <<b0, b1, b2, b3>>, least    *)
(* significant first, so that the C arithmetic on guint32 (modulo 2^32)    *)
(* is computed with its width, and the conversions between guint32 and     *)
(* gint (a signed 32-bit value) are computed rather than assumed.          *)
(***************************************************************************)
EXTENDS Integers, Sequences, FiniteSets, TLC

VARIABLES
    \* transform's locals while it works on one pixel
    pin, red, green, blue, pout, ppc,
    \* the Gstexclusion instance
    width, height,
    \* what the last callback was given, did and returned
    op, caps, caps_ret, w0, h0, in_buf, in_mem, pushed, flow_ret,
    video_size, overrun,
    \* history: the setcaps function has been called
    negotiated,
    \* the two callbacks running on different threads
    cpc, c_width, c_height, spc, quiescent, serial

pvars == <<pin, red, green, blue, pout, ppc>>

fvars == <<width, height>>

ovars == <<op, caps, caps_ret, w0, h0, in_buf, in_mem, pushed, flow_ret,
           video_size, overrun, negotiated>>

cvars == <<cpc, c_width, c_height, spc, quiescent, serial>>

vars == <<pvars, fvars, ovars, cvars>>

(***************************************************************************)
(* guint32 arithmetic                                                      *)
(***************************************************************************)
Limbs(n) ==
    <<n % 256, (n \div 256) % 256, (n \div 65536) % 256, (n \div 16777216) % 256>>

ValU32(a) == a[1] + 256 * a[2] + 65536 * a[3] + 16777216 * a[4]

NotU32(a) == <<255 - a[1], 255 - a[2], 255 - a[3], 255 - a[4]>>

AddU32(a, b) ==
    LET s1 == a[1] + b[1]
        s2 == a[2] + b[2] + (s1 \div 256)
        s3 == a[3] + b[3] + (s2 \div 256)
        s4 == a[4] + b[4] + (s3 \div 256)
    IN  <<s1 % 256, s2 % 256, s3 % 256, s4 % 256>>

SubU32(a, b) == AddU32(AddU32(a, NotU32(b)), Limbs(1))

MulU32(a, b) ==
    LET c1 == a[1] * b[1]
        c2 == a[1] * b[2] + a[2] * b[1] + (c1 \div 256)
        c3 == a[1] * b[3] + a[2] * b[2] + a[3] * b[1] + (c2 \div 256)
        c4 == a[1] * b[4] + a[2] * b[3] + a[3] * b[2] + a[4] * b[1] + (c3 \div 256)
    IN  <<c1 % 256, c2 % 256, c3 % 256, c4 % 256>>

\* unsigned division; the divisor is below 2^23 wherever the program divides
DivU32(a, b) ==
    LET d  == ValU32(b)
        n4 == a[4]
        n3 == (n4 % d) * 256 + a[3]
        n2 == (n3 % d) * 256 + a[2]
        n1 == (n2 % d) * 256 + a[1]
    IN  <<n1 \div d, n2 \div d, n3 \div d, n4 \div d>>

RECURSIVE Pow2(_)
Pow2(n) == IF n = 0 THEN 1 ELSE 2 * Pow2(n - 1)

ShrU32(a, n) == DivU32(a, Limbs(Pow2(n)))

ShlU32(a, n) == MulU32(a, Limbs(Pow2(n)))

RECURSIVE AndBits(_, _, _)
AndBits(x, y, k) ==
    IF k = 0 THEN 0
    ELSE (IF x % 2 = 1 /\ y % 2 = 1 THEN 1 ELSE 0)
         + 2 * AndBits(x \div 2, y \div 2, k - 1)

RECURSIVE OrBits(_, _, _)
OrBits(x, y, k) ==
    IF k = 0 THEN 0
    ELSE (IF x % 2 = 1 \/ y % 2 = 1 THEN 1 ELSE 0)
         + 2 * OrBits(x \div 2, y \div 2, k - 1)

AndU32(a, b) == [i \in 1..4 |-> AndBits(a[i], b[i], 8)]

OrU32(a, b) == [i \in 1..4 |-> OrBits(a[i], b[i], 8)]

\* guint32 -> gint: the same 32 bits read as a two's-complement value
ToGint(a) == IF a[4] < 128 THEN ValU32(a) ELSE -ValU32(NotU32(a)) - 1

\* gint -> guint32: the value modulo 2^32
FromGint(n) == IF n >= 0 THEN Limbs(n) ELSE NotU32(Limbs(-(n + 1)))

(***************************************************************************)
(* The image processing work                                               *)
(***************************************************************************)
factor == 175

\* gate_int without its first branch
gate_int_no_floor(value, min, max) ==
    IF value > max THEN max ELSE value

\* gate_int with the two bounds exchanged in its results
gate_int_swapped(value, min, max) ==
    IF value < min THEN max
    ELSE IF value > max THEN min
    ELSE value

gate_int(value, min, max) ==
    IF value < min THEN min
    ELSE IF value > max THEN max
    ELSE value

\* red = (in >> 16) & 0xff; green = (in >> 8) & 0xff; blue = (in) & 0xff
Unpack(in) ==
    [r |-> AndU32(ShrU32(in, 16), Limbs(255)),
     g |-> AndU32(ShrU32(in, 8), Limbs(255)),
     b |-> AndU32(in, Limbs(255))]

\* Exclude with the first term left unsquared
ExcludeUnsquared(c, o) ==
    LET f == FromGint(factor)
    IN  SubU32(f, AddU32(DivU32(SubU32(f, c), f), DivU32(MulU32(o, c), f)))

\* factor - (((factor - c) * (factor - c) / factor) + ((o * c) / factor)),
\* factor converted to guint32 by the usual arithmetic conversions
Exclude(c, o) ==
    LET f == FromGint(factor)
    IN  SubU32(f, AddU32(DivU32(MulU32(SubU32(f, c), SubU32(f, c)), f),
                         DivU32(MulU32(o, c), f)))

\* Blend with red mixed with itself, as green and blue are
BlendSelf(ch) ==
    [r |-> Exclude(ch.r, ch.r), g |-> Exclude(ch.g, ch.g), b |-> Exclude(ch.b, ch.b)]

\* the three channel assignments, in order: red is overwritten first, but
\* green is still the unpacked green when red is computed
Blend(ch) ==
    LET r1 == Exclude(ch.r, ch.g)
        g1 == Exclude(ch.g, ch.g)
        b1 == Exclude(ch.b, ch.b)
    IN  [r |-> r1, g |-> g1, b |-> b1]

Gate(ch) ==
    [r |-> FromGint(gate_int(ToGint(ch.r), 0, 255)),
     g |-> FromGint(gate_int(ToGint(ch.g), 0, 255)),
     b |-> FromGint(gate_int(ToGint(ch.b), 0, 255))]

Pack(ch) == OrU32(OrU32(ShlU32(ch.r, 16), ShlU32(ch.g, 8)), ch.b)

transform_pixel(in) == Pack(Gate(Blend(Unpack(in))))

(***************************************************************************)
(* transform, one pixel at a time: the body of the loop at lines 296-318   *)
(***************************************************************************)
LocalsOf(ch) == /\ red' = ch.r
                /\ green' = ch.g
                /\ blue' = ch.b

PxUnpack ==
    /\ ppc = "read"
    /\ LocalsOf(Unpack(pin))
    /\ ppc' = "unpacked"
    /\ UNCHANGED <<pin, pout, fvars, ovars, cvars>>

PxBlend ==
    /\ ppc = "unpacked"
    /\ LocalsOf(Blend([r |-> red, g |-> green, b |-> blue]))
    /\ ppc' = "blended"
    /\ UNCHANGED <<pin, pout, fvars, ovars, cvars>>

PxGate ==
    /\ ppc = "blended"
    /\ LocalsOf(Gate([r |-> red, g |-> green, b |-> blue]))
    /\ ppc' = "gated"
    /\ UNCHANGED <<pin, pout, fvars, ovars, cvars>>

PxPack ==
    /\ ppc = "gated"
    /\ pout' = Pack([r |-> red, g |-> green, b |-> blue])
    /\ ppc' = "written"
    /\ UNCHANGED <<pin, red, green, blue, fvars, ovars, cvars>>

Chan == 0..255

PixelOf(a, r, g, b) == <<b, g, r, a>>

\* every (red, green) pair, with blue and the unused byte chosen so that every
\* (red, blue) and (green, blue) pair and every unused byte occurs as well;
\* and every grey level, with the unused byte clear and set
PixelInputs ==
    {PixelOf(255 - r, r, g, (r + g) % 256) : r \in Chan, g \in Chan}
    \cup {PixelOf(a, v, v, v) : a \in {0, 255}, v \in Chan}

PixelIdle ==
    /\ pin = Limbs(0)
    /\ red = Limbs(0)
    /\ green = Limbs(0)
    /\ blue = Limbs(0)
    /\ pout = Limbs(0)
    /\ ppc = "read"

NoCaps == [width |-> [int |-> FALSE, value |-> 0],
           height |-> [int |-> FALSE, value |-> 0]]

\* the instance after gst_exclusion_init: GObject hands out zeroed instance
\* memory and init stores neither width nor height
FilterIdle ==
    /\ width = 0
    /\ height = 0
    /\ op = "init"
    /\ caps = NoCaps
    /\ caps_ret = FALSE
    /\ w0 = 0
    /\ h0 = 0
    /\ in_buf = <<>>
    /\ in_mem = <<>>
    /\ pushed = <<>>
    /\ flow_ret = "none"
    /\ video_size = 0
    /\ overrun = FALSE
    /\ negotiated = FALSE
    /\ cpc = "idle"
    /\ c_width = 0
    /\ c_height = 0
    /\ spc = "idle"
    /\ quiescent = <<0, 0>>
    /\ serial = {}

InitPixel ==
    /\ pin \in PixelInputs
    /\ red = Limbs(0)
    /\ green = Limbs(0)
    /\ blue = Limbs(0)
    /\ pout = Limbs(0)
    /\ ppc = "read"
    /\ FilterIdle

NextPixel == PxUnpack \/ PxBlend \/ PxGate \/ PxPack

SpecPixel == InitPixel /\ [][NextPixel]_vars

(***************************************************************************)
(* transform over a frame, and the two pad callbacks                       *)
(***************************************************************************)
MaxPixels == 2

MaxDim == 2

\* widths and heights a caps structure can carry
Dims == (0 - 1)..MaxDim

SamplePixels ==
    {PixelOf(0, 0, 0, 0), PixelOf(255, 175, 0, 88),
     PixelOf(0, 255, 255, 255), PixelOf(255, 87, 87, 200)}

RECURSIVE FramesOf(_)
FramesOf(n) ==
    IF n = 0 THEN {<<>>}
    ELSE {Append(f, p) : f \in FramesOf(n - 1), p \in SamplePixels}

Frames == UNION {FramesOf(n) : n \in 0..MaxPixels}

Fields ==
    {[int |-> FALSE, value |-> 0]} \cup {[int |-> TRUE, value |-> v] : v \in Dims}

CapsStructures == [width : Fields, height : Fields]

FlowReturns == {"GST_FLOW_OK", "GST_FLOW_NOT_LINKED"}

\* gst_structure_get_int: stores the field's value when the structure has the
\* field and it holds an int, and leaves the destination alone otherwise
gst_structure_get_int(structure, fieldname, dest) ==
    IF structure[fieldname].int THEN structure[fieldname].value ELSE dest

\* a new buffer of the same size whose data is not copied
gst_buffer_new_cleared(buf) == [i \in 1..Len(buf) |-> Limbs(0)]

\* gst_buffer_copy: a new buffer holding a copy of the data
gst_buffer_copy(buf) == [i \in 1..Len(buf) |-> buf[i]]

\* transform_pixel on the pixels the frames are made of, computed once
Transformed == [p \in SamplePixels |-> transform_pixel(p)]

\* the loop of transform from pixel x on, as far as src and dest reach
RECURSIVE transform(_, _, _, _)
transform(src, dest, x, video_area) ==
    IF x < video_area /\ x < Len(src)
    THEN transform(src, [dest EXCEPT ![x + 1] = Transformed[src[x + 1]]],
                   x + 1, video_area)
    ELSE dest

Min(a, b) == IF a < b THEN a ELSE b

\* what an overrunning loop can leave in the input buffer when dest lies
\* directly below src: dest[n + k] is src[k], and it receives the transform
\* of whatever lies beyond src
Clobbered(buf, area) ==
    LET k == Min(area - Len(buf), Len(buf))
    IN  {[i \in 1..Len(buf) |-> IF i <= k THEN Transformed[g] ELSE buf[i]] :
            g \in SamplePixels}

\* gst_exclusion_chain from the point where width and height have been read.
\* pushed is what the call hands to gst_pad_push, flow_ret what it returns:
\* the answer of gst_pad_push, which is downstream's.  Within Dims the
\* product width * height stays far inside a gint.
ChainBody(buf, w, h, peer) ==
    LET out_buf == gst_buffer_copy(buf)
        size    == w * h
        dest    == transform(buf, out_buf, 0, size)
    IN  /\ op' = "chain"
        /\ in_buf' = buf
        /\ w0' = w
        /\ h0' = h
        /\ video_size' = size
        /\ overrun' = (size > Len(buf))
        /\ IF size <= Len(buf)
           THEN /\ in_mem' = buf
                /\ pushed' = <<dest>>
                /\ flow_ret' = peer
           ELSE \* the loop reads and writes beyond both buffers: the access
                \* faults, or lands in memory nobody looks at, or lands in the
                \* input buffer
                \/ /\ in_mem' = buf
                   /\ pushed' = <<>>
                   /\ flow_ret' = "SIGSEGV"
                \/ /\ in_mem' \in {buf} \cup Clobbered(buf, size)
                   /\ pushed' = <<dest>>
                   /\ flow_ret' = peer
        /\ UNCHANGED <<negotiated>>

Running == flow_ret # "SIGSEGV"

gst_exclusion_chain ==
    /\ Running
    /\ \E buf \in Frames, peer \in FlowReturns :
          ChainBody(buf, width, height, peer)
    /\ caps' = NoCaps
    /\ caps_ret' = FALSE
    /\ UNCHANGED <<fvars, pvars, cvars>>

\* the results of the two gst_structure_get_int calls are dropped; the call
\* returns what gst_pad_set_caps on the other pad answers, peer_ok
gst_exclusion_set_caps ==
    /\ Running
    /\ \E structure \in CapsStructures, peer_ok \in BOOLEAN :
          /\ width' = gst_structure_get_int(structure, "width", width)
          /\ height' = gst_structure_get_int(structure, "height", height)
          /\ op' = "set_caps"
          /\ caps' = structure
          /\ caps_ret' = peer_ok
          /\ w0' = width
          /\ h0' = height
          /\ negotiated' = TRUE
    /\ in_buf' = <<>>
    /\ in_mem' = <<>>
    /\ pushed' = <<>>
    /\ video_size' = 0
    /\ overrun' = FALSE
    /\ UNCHANGED <<flow_ret, pvars, cvars>>

Init == PixelIdle /\ FilterIdle

Next == gst_exclusion_chain \/ gst_exclusion_set_caps

Spec == Init /\ [][Next]_vars

(***************************************************************************)
(* The callbacks on two threads: the chain function on the streaming       *)
(* thread, the setcaps function on a thread that sets caps on the sink     *)
(* pad.  Neither takes a lock, so the steps are the accesses to            *)
(* filter->width and filter->height.  quiescent is the (width, height)     *)
(* that the completed negotiations have stored, and serial collects the    *)
(* pairs a chain call could find if negotiations were never under way      *)
(* while it reads.                                                         *)
(***************************************************************************)
\* negotiations that may change the stored pair while one chain call runs
MaxOverlap == 1

ChainEnter ==
    /\ Running
    /\ cpc = "idle"
    /\ cpc' = "width"
    /\ serial' = {quiescent}
    /\ in_buf' = <<>>
    /\ in_mem' = <<>>
    /\ pushed' = <<>>
    /\ video_size' = 0
    /\ overrun' = FALSE
    /\ UNCHANGED <<op, caps, caps_ret, w0, h0, flow_ret, negotiated>>
    /\ UNCHANGED <<c_width, c_height, spc, quiescent, fvars, pvars>>

ChainReadWidth ==
    /\ cpc = "width"
    /\ c_width' = width
    /\ cpc' = "height"
    /\ UNCHANGED <<c_height, spc, quiescent, serial, fvars, ovars, pvars>>

ChainReadHeight ==
    /\ cpc = "height"
    /\ c_height' = height
    /\ cpc' = "size"
    /\ UNCHANGED <<c_width, spc, quiescent, serial, fvars, ovars, pvars>>

ChainFinish ==
    /\ cpc = "size"
    /\ \E buf \in Frames, peer \in FlowReturns :
          ChainBody(buf, c_width, c_height, peer)
    /\ cpc' = "idle"
    /\ c_width' = 0
    /\ c_height' = 0
    /\ serial' = {}
    /\ UNCHANGED <<caps, caps_ret, spc, quiescent, fvars, pvars>>

\* the caps structure is the caller's and does not change during the call:
\* each of its fields is drawn where the call reads it
SetCapsEnter ==
    /\ Running
    /\ spc = "idle"
    /\ cpc = "idle" \/ Cardinality(serial) <= MaxOverlap
    /\ spc' = "width"
    /\ negotiated' = TRUE
    /\ UNCHANGED <<op, caps, caps_ret, w0, h0, in_buf, in_mem, pushed, flow_ret,
                   video_size, overrun>>
    /\ UNCHANGED <<cpc, c_width, c_height, quiescent, serial, fvars, pvars>>

SetCapsWidth ==
    /\ spc = "width"
    /\ \E f \in Fields :
          width' = gst_structure_get_int([width |-> f], "width", width)
    /\ spc' = "height"
    /\ UNCHANGED <<height, caps, caps_ret, op, w0, h0, in_buf, in_mem, pushed,
                   flow_ret, video_size, overrun, negotiated>>
    /\ UNCHANGED <<cpc, c_width, c_height, quiescent, serial, pvars>>

SetCapsHeight ==
    /\ spc = "height"
    /\ \E f \in Fields :
          height' = gst_structure_get_int([height |-> f], "height", height)
    /\ spc' = "return"
    /\ quiescent' = <<width, height'>>
    /\ serial' = IF cpc = "idle" THEN serial ELSE serial \cup {<<width, height'>>}
    /\ UNCHANGED <<width, caps, caps_ret, op, w0, h0, in_buf, in_mem, pushed,
                   flow_ret, video_size, overrun, negotiated>>
    /\ UNCHANGED <<cpc, c_width, c_height, pvars>>

SetCapsReturn ==
    /\ spc = "return"
    /\ \E peer_ok \in BOOLEAN : caps_ret' = peer_ok
    /\ spc' = "idle"
    /\ UNCHANGED <<caps, op, w0, h0, in_buf, in_mem, pushed, flow_ret,
                   video_size, overrun, negotiated>>
    /\ UNCHANGED <<cpc, c_width, c_height, quiescent, serial, fvars, pvars>>

NextConc ==
    \/ ChainEnter \/ ChainReadWidth \/ ChainReadHeight \/ ChainFinish
    \/ SetCapsEnter \/ SetCapsWidth \/ SetCapsHeight \/ SetCapsReturn

SpecConc == Init /\ [][NextConc]_vars

(***************************************************************************)
(* Properties of transform on one pixel (SpecPixel)                        *)
(***************************************************************************)
TruncDiv(a, b) == IF a >= 0 THEN a \div b ELSE -((-a) \div b)

Clamp(v) == IF v < 0 THEN 0 ELSE IF v > 255 THEN 255 ELSE v

\* the blend of channel c with channel o over the mathematical integers
Excl(c, o) == 175 - (TruncDiv((175 - c) * (175 - c), 175) + TruncDiv(o * c, 175))

InR == pin[3]

InG == pin[2]

InB == pin[1]

\* C1: for every input pixel the locals handed to gate_int, read as signed
\* 32-bit values, are the blend formulas over the mathematical integers (red
\* mixed with the original green), and the pixel written is
\* (r' << 16) | (g' << 8) | b' with each channel clamped into [0, 255].
C1_TransformIsFormula ==
    /\ ppc = "blended" =>
          /\ ToGint(red) = Excl(InR, InG)
          /\ ToGint(green) = Excl(InG, InG)
          /\ ToGint(blue) = Excl(InB, InB)
    /\ ppc = "written" =>
          pout = <<Clamp(Excl(InB, InB)), Clamp(Excl(InG, InG)),
                   Clamp(Excl(InR, InG)), 0>>

\* a pixel whose blue exceeds factor (so factor - blue wraps around as a
\* guint32) and clamps to 0 while its red survives
C1_Witness ==
    /\ ppc = "written"
    /\ InB > 175
    /\ pout[1] = 0
    /\ pout[3] > 0

IsByte(u) == u[2] = 0 /\ u[3] = 0 /\ u[4] = 0

\* C2: after gating each of red, green and blue is in [0, 255], so the packed
\* channels do not overlap and the pixel written is below 2^24.
C2_ChannelsBounded ==
    /\ ppc \in {"gated", "written"} =>
          /\ IsByte(red) /\ IsByte(green) /\ IsByte(blue)
          /\ ToGint(red) \in 0..255
          /\ ToGint(green) \in 0..255
          /\ ToGint(blue) \in 0..255
    /\ ppc = "written" => pout = <<blue[1], green[1], red[1], 0>>

\* an input with its top byte set, a channel gated up from below zero and a
\* channel that stays positive
C2_Witness ==
    /\ ppc = "written"
    /\ pin[4] > 127
    /\ pout[3] > 0
    /\ Excl(InB, InB) < 0

\* C8: the grey pixels of level 0, 175 and 255 are transformed to 0x00000000;
\* for 255 every channel is -232 before the clamp.
C8_GreyToBlack ==
    /\ (ppc = "written" /\ InR = InG /\ InG = InB /\ InR \in {0, 175, 255})
          => pout = Limbs(0)
    /\ (ppc = "blended" /\ InR = 255 /\ InG = 255 /\ InB = 255)
          => (ToGint(red) = -232 /\ ToGint(green) = -232 /\ ToGint(blue) = -232)

C8_Witness ==
    /\ ppc = "written"
    /\ pin = PixelOf(255, 255, 255, 255)
    /\ pout = Limbs(0)

\* C10: the value handed to the clamp is at most 175 for red and at most 88
\* for green and blue, so the clamp's upper bound never decides and every
\* pixel written has red <= 175, green <= 88 and blue <= 88.
C10_PreClampCeiling ==
    /\ ppc = "blended" =>
          /\ ToGint(red) <= 175
          /\ ToGint(green) <= 88
          /\ ToGint(blue) <= 88
    /\ ppc = "gated" =>
          /\ ToGint(red) = Excl(InR, InG) \/ (Excl(InR, InG) < 0 /\ ToGint(red) = 0)
          /\ ToGint(green) = Excl(InG, InG) \/ (Excl(InG, InG) < 0 /\ ToGint(green) = 0)
          /\ ToGint(blue) = Excl(InB, InB) \/ (Excl(InB, InB) < 0 /\ ToGint(blue) = 0)
    /\ ppc = "written" => (pout[3] <= 175 /\ pout[2] <= 88 /\ pout[1] <= 88)

\* red at its ceiling while blue is below zero before the clamp
C10_Witness ==
    /\ ppc = "blended"
    /\ ToGint(red) = 175
    /\ ToGint(blue) < 0

(***************************************************************************)
(* Properties of the callbacks, one at a time (Spec)                       *)
(***************************************************************************)
\* C3: a chain call made before any set_caps call fails with an error and
\* pushes no frame downstream.
C3_UnconfiguredRejected ==
    (op = "chain" /\ ~negotiated) =>
        (flow_ret # "GST_FLOW_OK" /\ pushed = <<>>)

\* C4: a set_caps call whose structure lacks an int width or an int height
\* reports failure and leaves the stored width and height as they were.
C4_IncompleteCapsRejected ==
    (op = "set_caps" /\ (~caps.width.int \/ ~caps.height.int)) =>
        (caps_ret = FALSE /\ width = w0 /\ height = h0)

\* C5: a chain call whose width * height differs from the pixel count of the
\* buffer fails, touches no pixel beyond the buffer and pushes no frame.
C5_MismatchRejected ==
    (op = "chain" /\ w0 * h0 # Len(in_buf)) =>
        (flow_ret # "GST_FLOW_OK" /\ ~overrun /\ pushed = <<>>)

\* C6: every chain call leaves the input frame as it was, produces an output
\* frame of the same pixel count, and leaves width and height as they were.
C6_InputUntouched ==
    op = "chain" =>
        /\ in_mem = in_buf
        /\ Len(pushed) = 1
        /\ Len(pushed[1]) = Len(in_buf)
        /\ width = w0
        /\ height = h0

\* C9: with width * height below the pixel count of the buffer the call pushes
\* a frame whose pixels below width * height are transformed and whose other
\* pixels are the input's, top byte included; with width * height <= 0 the
\* frame pushed is the input.
C9_ShortAreaPassesTail ==
    (op = "chain" /\ w0 * h0 < Len(in_buf)) =>
        /\ pushed = <<[i \in 1..Len(in_buf) |->
                          IF i <= w0 * h0 THEN transform_pixel(in_buf[i])
                                          ELSE in_buf[i]]>>
        /\ (w0 * h0 <= 0 => pushed = <<in_buf>>)
        /\ in_mem = in_buf

\* one pixel of two transformed, the second passed on with its top byte
C9_Witness ==
    /\ op = "chain"
    /\ w0 * h0 = 1
    /\ Len(in_buf) = 2
    /\ Len(pushed) = 1
    /\ pushed[1][1] # in_buf[1]
    /\ pushed[1][2][4] = 255

(***************************************************************************)
(* Properties of the callbacks on two threads (SpecConc)                   *)
(***************************************************************************)
\* C7: the width and height a chain call computes its pixel count from are a
\* pair that a negotiation left stored, never the width of one negotiation
\* with the height of another.
C7_ReadsOnePair ==
    cpc = "size" => <<c_width, c_height>> \in serial

====
